---- MODULE Spec2Model ----
(***************************************************************************)
(* The rate-limited issuance ledger of the ERC-20 Token Faucet DApp:       *)
(*   Token        (the Credit Ledger)  contracts/Token.sol                 *)
(*   TokenFaucet  (the Distributor)    contracts/TokenFaucet.sol           *)
(* Every transaction is one atomic step (the EVM serialises transactions   *)
(* and a revert undoes every write of the transaction).                    *)
(*                                                                         *)
(* Amounts are counted in whole tokens (1 unit = 10**18 base units): every *)
(* amount of the contracts is a multiple of 10**18.  Time is in seconds.   *)
(***************************************************************************)
EXTENDS Integers, Sequences, FiniteSets, TLC

-----------------------------------------------------------------------------
(* Program constants *)

FAUCET_AMOUNT == 10

COOLDOWN_TIME == 86400

MAX_CLAIM_AMOUNT == 100

MAX_SUPPLY == 100000000

-----------------------------------------------------------------------------
(* Bounds of the model *)

\* block.timestamp of the first block after deployment (a block timestamp is
\* strictly greater than its parent's, so it is never 0)
StartTime == 1

\* horizon of Spec, in cooldown periods
MaxCooldowns == 1

\* horizon of SpecLifetime, in cooldown periods (10 claims and one more period)
MaxLifetimeCooldowns == 10

\* horizon of SpecFair, in cooldown periods
MaxFairCooldowns == 2

\* requestTokens calls of the client in SpecClient
MaxClientCalls == 2

\* horizon of SpecClient, in cooldown periods
MaxClientCooldowns == 10

-----------------------------------------------------------------------------
(* Identities *)

ZERO == "address(0)"

OWNER == "owner"

FAUCET == "faucet"

USER1 == "user1"

USER2 == "user2"

Address == {ZERO, OWNER, FAUCET, USER1, USER2}

\* externally owned accounts that send transactions
Users == {USER1, USER2}

Senders == {OWNER} \cup Users

-----------------------------------------------------------------------------
(* Revert reasons *)

NoError == "ok"

ErrPaused == "Faucet is paused"

ErrCooldown == "Cooldown period not elapsed"

ErrLifetime == "Lifetime claim limit reached"

ErrAllowance == "Insufficient faucet balance"

ErrOnlyMinter == "Only minter can mint tokens"

ErrMaxSupply == "Exceeds maximum supply"

ErrMintZero == "Cannot mint to zero address"

ErrMinterZero == "Minter cannot be zero address"

ErrNotOwner == "OwnableUnauthorizedAccount"

ErrInvalidReceiver == "ERC20InvalidReceiver"

ErrInsufficientBalance == "ERC20InsufficientBalance"

-----------------------------------------------------------------------------
VARIABLES
    paused,        \* TokenFaucet.paused
    lastClaimAt,   \* TokenFaucet.lastClaimAt
    totalClaimed,  \* TokenFaucet.totalClaimed
    minter,        \* Token.minter
    balances,      \* ERC20 balances of Token
    totalSupply,   \* ERC20 totalSupply of Token
    now,           \* block.timestamp
    outcome        \* the last transaction: call, sender, arguments, revert reason, events

\* the client (Web3Service) and the transactions it handed to the wallet
VARIABLES
    signer,         \* Web3Service.signer
    currentAccount, \* Web3Service.currentAccount
    pc,             \* position of the running Web3Service.requestTokens call
    txHash,         \* local txHash of requestTokens
    error,          \* message of the error caught by requestTokens
    result,         \* how the last requestTokens call settled
    sends,          \* calls of faucetWithSigner.requestTokens() made by the running call
    calls,          \* requestTokens calls started so far
    txStatus        \* per transaction hash: none, pending, success or reverted

clientVars == <<signer, currentAccount, pc, txHash, error, result, sends, calls, txStatus>>

\* the rest of the page: a connectWallet call of its own and the state of App
VARIABLES
    connPc,          \* position of a running Web3Service.connectWallet call
    eligibleToClaim, \* App state eligibleToClaim
    claiming,        \* App state claiming
    uiMsg,           \* App state msg
    appPc,           \* position of the running App.claim call
    readResult       \* what the last read function of the service returned

pageVars == <<connPc, eligibleToClaim, claiming, uiMsg, appPc, readResult>>

vars == <<paused, lastClaimAt, totalClaimed, minter, balances, totalSupply, now, outcome,
          signer, currentAccount, pc, txHash, error, result, sends, calls, txStatus,
          connPc, eligibleToClaim, claiming, uiMsg, appPc, readResult>>

\* the storage of both contracts as one value
St ==
    [ paused       |-> paused,
      lastClaimAt  |-> lastClaimAt,
      totalClaimed |-> totalClaimed,
      minter       |-> minter,
      balances     |-> balances,
      totalSupply  |-> totalSupply ]

\* a transaction that returns: the new storage and the events it emitted
Ok(s, events) == [st |-> s, err |-> NoError, events |-> events]

\* a transaction that reverts: the storage it started from, no event
Revert(s, err) == [st |-> s, err |-> err, events |-> <<>>]

-----------------------------------------------------------------------------
(* Token *)

tokenOwner == OWNER

balanceOf(s, account) == s.balances[account]

_mint_supplyNotCounted(s, to, amount) ==
    Ok([s EXCEPT !.balances[to] = @ + amount],
       << [event |-> "Transfer", from |-> ZERO, to |-> to, value |-> amount] >>)

\* ERC20._mint
_mint(s, to, amount) ==
    Ok([s EXCEPT !.balances[to] = @ + amount, !.totalSupply = @ + amount],
       << [event |-> "Transfer", from |-> ZERO, to |-> to, value |-> amount] >>)

mintAuthorized_ownerToo(s, sender) == sender = s.minter \/ sender = tokenOwner

mintAuthorized(s, sender) == sender = s.minter

mintWithinSupply_amountOnly(s, amount) == amount <= MAX_SUPPLY

mintWithinSupply(s, amount) == s.totalSupply + amount <= MAX_SUPPLY

mint_skipsZero(s, sender, to, amount) ==
    IF ~mintAuthorized(s, sender) THEN Revert(s, ErrOnlyMinter)
    ELSE IF ~mintWithinSupply(s, amount) THEN Revert(s, ErrMaxSupply)
    ELSE IF ~(to # ZERO) THEN Revert(s, ErrMintZero)
    ELSE IF amount = 0 THEN Ok(s, <<>>)
    ELSE _mint(s, to, amount)

mint_recipientFirst(s, sender, to, amount) ==
    IF ~(to # ZERO) THEN Revert(s, ErrMintZero)
    ELSE IF ~mintAuthorized(s, sender) THEN Revert(s, ErrOnlyMinter)
    ELSE IF ~mintWithinSupply(s, amount) THEN Revert(s, ErrMaxSupply)
    ELSE _mint(s, to, amount)

mint(s, sender, to, amount) ==
    IF ~mintAuthorized(s, sender) THEN Revert(s, ErrOnlyMinter)
    ELSE IF ~mintWithinSupply(s, amount) THEN Revert(s, ErrMaxSupply)
    ELSE IF ~(to # ZERO) THEN Revert(s, ErrMintZero)
    ELSE _mint(s, to, amount)

setMinter_anyone(s, sender, _minter) ==
    IF ~(_minter # ZERO) THEN Revert(s, ErrMinterZero)
    ELSE Ok([s EXCEPT !.minter = _minter],
            << [event |-> "MinterUpdated", newMinter |-> _minter] >>)

setMinter_setOnce(s, sender, _minter) ==
    IF sender # tokenOwner THEN Revert(s, ErrNotOwner)
    ELSE IF ~(_minter # ZERO) THEN Revert(s, ErrMinterZero)
    ELSE Ok([s EXCEPT !.minter = IF s.minter = ZERO THEN _minter ELSE s.minter],
            << [event |-> "MinterUpdated", newMinter |-> _minter] >>)

setMinter(s, sender, _minter) ==
    IF sender # tokenOwner THEN Revert(s, ErrNotOwner)
    ELSE IF ~(_minter # ZERO) THEN Revert(s, ErrMinterZero)
    ELSE Ok([s EXCEPT !.minter = _minter],
            << [event |-> "MinterUpdated", newMinter |-> _minter] >>)

transfer_refundsAllowance(s, sender, to, amount) ==
    IF to = ZERO THEN Revert(s, ErrInvalidReceiver)
    ELSE IF s.balances[sender] < amount THEN Revert(s, ErrInsufficientBalance)
    ELSE Ok([s EXCEPT !.balances =
                 [a \in Address |->
                     IF a = sender /\ a = to THEN s.balances[a]
                     ELSE IF a = sender THEN s.balances[a] - amount
                     ELSE IF a = to THEN s.balances[a] + amount
                     ELSE s.balances[a]],
                     !.totalClaimed[sender] = IF @ >= amount THEN @ - amount ELSE 0],
            << [event |-> "Transfer", from |-> sender, to |-> to, value |-> amount] >>)

\* ERC20.transfer
transfer(s, sender, to, amount) ==
    IF to = ZERO THEN Revert(s, ErrInvalidReceiver)
    ELSE IF s.balances[sender] < amount THEN Revert(s, ErrInsufficientBalance)
    ELSE Ok([s EXCEPT !.balances =
                 [a \in Address |->
                     IF a = sender /\ a = to THEN s.balances[a]
                     ELSE IF a = sender THEN s.balances[a] - amount
                     ELSE IF a = to THEN s.balances[a] + amount
                     ELSE s.balances[a]]],
            << [event |-> "Transfer", from |-> sender, to |-> to, value |-> amount] >>)

-----------------------------------------------------------------------------
(* TokenFaucet *)

faucetOwner == OWNER

remainingAllowance_fromBalance(s, user) ==
    LET claimed == s.balances[user]
    IN  IF claimed >= MAX_CLAIM_AMOUNT THEN 0 ELSE MAX_CLAIM_AMOUNT - claimed

remainingAllowance(s, user) ==
    LET claimed == s.totalClaimed[user]
    IN  IF claimed >= MAX_CLAIM_AMOUNT THEN 0 ELSE MAX_CLAIM_AMOUNT - claimed

canClaim_cooldownOnly(s, user, ts) ==
    IF s.paused THEN FALSE
    ELSE IF s.lastClaimAt[user] = 0 THEN TRUE
    ELSE IF ts >= s.lastClaimAt[user] + COOLDOWN_TIME THEN TRUE
    ELSE FALSE

canClaim_needsMinter(s, user, ts) ==
    IF s.paused THEN FALSE
    ELSE IF s.minter # FAUCET THEN FALSE
    ELSE IF s.totalClaimed[user] >= MAX_CLAIM_AMOUNT THEN FALSE
    ELSE IF s.lastClaimAt[user] = 0 THEN TRUE
    ELSE IF ts >= s.lastClaimAt[user] + COOLDOWN_TIME THEN TRUE
    ELSE FALSE

canClaim_strictCooldown(s, user, ts) ==
    IF s.paused THEN FALSE
    ELSE IF s.totalClaimed[user] >= MAX_CLAIM_AMOUNT THEN FALSE
    ELSE IF s.lastClaimAt[user] = 0 THEN TRUE
    ELSE IF ts > s.lastClaimAt[user] + COOLDOWN_TIME THEN TRUE
    ELSE FALSE

canClaim(s, user, ts) ==
    IF s.paused THEN FALSE
    ELSE IF s.totalClaimed[user] >= MAX_CLAIM_AMOUNT THEN FALSE
    ELSE IF s.lastClaimAt[user] = 0 THEN TRUE
    ELSE IF ts >= s.lastClaimAt[user] + COOLDOWN_TIME THEN TRUE
    ELSE FALSE

isPaused(s) == s.paused

timeUntilNextClaim_noNeverClaimed(s, user, ts) ==
    LET nextClaimTime == s.lastClaimAt[user] + COOLDOWN_TIME
    IN  IF ts >= nextClaimTime THEN 0 ELSE nextClaimTime - ts

timeUntilNextClaim(s, user, ts) ==
    IF s.lastClaimAt[user] = 0 THEN 0
    ELSE LET nextClaimTime == s.lastClaimAt[user] + COOLDOWN_TIME
         IN  IF ts >= nextClaimTime THEN 0 ELSE nextClaimTime - ts

setPaused_toggle(s, sender, _paused) ==
    IF sender # faucetOwner THEN Revert(s, ErrNotOwner)
    ELSE Ok([s EXCEPT !.paused = ~s.paused],
            << [event |-> "FaucetPaused", paused |-> _paused] >>)

setPaused_emitsOnChange(s, sender, _paused) ==
    IF sender # faucetOwner THEN Revert(s, ErrNotOwner)
    ELSE Ok([s EXCEPT !.paused = _paused],
            IF s.paused = _paused THEN <<>>
            ELSE << [event |-> "FaucetPaused", paused |-> _paused] >>)

setPaused(s, sender, _paused) ==
    IF sender # faucetOwner THEN Revert(s, ErrNotOwner)
    ELSE Ok([s EXCEPT !.paused = _paused],
            << [event |-> "FaucetPaused", paused |-> _paused] >>)

pauseGuard_ignored(s) == TRUE

\* the require conditions of requestTokens, in the order of the code
pauseGuard(s) == ~s.paused

cooldownGuard_offByOne(s, sender, ts) ==
    \/ s.lastClaimAt[sender] = 0
    \/ ts + 1 >= s.lastClaimAt[sender] + COOLDOWN_TIME

cooldownGuard_absoluteTime(s, sender, ts) ==
    \/ s.lastClaimAt[sender] = 0
    \/ ts >= COOLDOWN_TIME

cooldownGuard(s, sender, ts) ==
    \/ s.lastClaimAt[sender] = 0
    \/ ts >= s.lastClaimAt[sender] + COOLDOWN_TIME

lifetimeGuard_inclusive(s, sender) == s.totalClaimed[sender] <= MAX_CLAIM_AMOUNT

lifetimeGuard(s, sender) == s.totalClaimed[sender] < MAX_CLAIM_AMOUNT

allowanceGuard(s, sender) == remainingAllowance(s, sender) >= FAUCET_AMOUNT

claimGuards_noLifetimeLimit(s, sender, ts) ==
    IF ~pauseGuard(s) THEN ErrPaused
    ELSE IF ~cooldownGuard(s, sender, ts) THEN ErrCooldown
    ELSE NoError

claimGuards_lifetimeFirst(s, sender, ts) ==
    IF ~pauseGuard(s) THEN ErrPaused
    ELSE IF ~lifetimeGuard(s, sender) THEN ErrLifetime
    ELSE IF ~cooldownGuard(s, sender, ts) THEN ErrCooldown
    ELSE IF ~allowanceGuard(s, sender) THEN ErrAllowance
    ELSE NoError

\* the revert reason of the first failing require, NoError when all pass
claimGuards(s, sender, ts) ==
    IF ~pauseGuard(s) THEN ErrPaused
    ELSE IF ~cooldownGuard(s, sender, ts) THEN ErrCooldown
    ELSE IF ~lifetimeGuard(s, sender) THEN ErrLifetime
    ELSE IF ~allowanceGuard(s, sender) THEN ErrAllowance
    ELSE NoError

claimEffects_noTimestamp(s, sender, ts) ==
    [s EXCEPT !.totalClaimed[sender] = @ + FAUCET_AMOUNT]

claimEffects_sharedCooldown(s, sender, ts) ==
    [s EXCEPT !.lastClaimAt = [a \in Address |-> ts],
              !.totalClaimed[sender] = @ + FAUCET_AMOUNT]

claimEffects_signSlip(s, sender, ts) ==
    [s EXCEPT !.lastClaimAt[sender] = ts,
              !.totalClaimed[sender] = @ - FAUCET_AMOUNT]

claimEffects_deferred(s, sender, ts) == s

claimEffects_timestampAhead(s, sender, ts) ==
    [s EXCEPT !.lastClaimAt[sender] = ts + COOLDOWN_TIME,
              !.totalClaimed[sender] = @ + FAUCET_AMOUNT]

claimEffects_partialCredit(s, sender, ts) ==
    [s EXCEPT !.lastClaimAt[sender] = ts,
              !.totalClaimed[sender] = @ + FAUCET_AMOUNT - 3]

claimEffects_timestampOnly(s, sender, ts) ==
    [s EXCEPT !.lastClaimAt[sender] = ts]

\* state updated before the external call
claimEffects(s, sender, ts) ==
    [s EXCEPT !.lastClaimAt[sender] = ts,
              !.totalClaimed[sender] = @ + FAUCET_AMOUNT]

claimMint_noRollback(s, s1, sender, ts) ==
    LET m == mint(s1, FAUCET, sender, FAUCET_AMOUNT)
    IN  IF m.err # NoError THEN Revert(s1, m.err)
        ELSE Ok(m.st, m.events \o
                 << [event |-> "TokensClaimed", user |-> sender,
                     amount |-> FAUCET_AMOUNT, timestamp |-> ts] >>)

claimMint_swallowsFailure(s, s1, sender, ts) ==
    LET m == mint(s1, FAUCET, sender, FAUCET_AMOUNT)
    IN  IF m.err # NoError THEN Ok(s1, <<>>)
        ELSE Ok(m.st, m.events \o
                 << [event |-> "TokensClaimed", user |-> sender,
                     amount |-> FAUCET_AMOUNT, timestamp |-> ts] >>)

claimMint_noClaimEvent(s, s1, sender, ts) ==
    LET m == mint(s1, FAUCET, sender, FAUCET_AMOUNT)
    IN  IF m.err # NoError THEN Revert(s, m.err)
        ELSE Ok(m.st, m.events)

\* token.mint(msg.sender, FAUCET_AMOUNT) called by the faucet on the updated
\* storage s1; a revert of the callee reverts the whole transaction to s
claimMint(s, s1, sender, ts) ==
    LET m == mint(s1, FAUCET, sender, FAUCET_AMOUNT)
    IN  IF m.err # NoError THEN Revert(s, m.err)
        ELSE Ok(m.st, m.events \o
                 << [event |-> "TokensClaimed", user |-> sender,
                     amount |-> FAUCET_AMOUNT, timestamp |-> ts] >>)

requestTokens(s, sender, ts) ==
    LET g == claimGuards(s, sender, ts)
    IN  IF g # NoError THEN Revert(s, g)
        ELSE claimMint(s, claimEffects(s, sender, ts), sender, ts)

-----------------------------------------------------------------------------
(* Transactions *)

View_recordsCaller(op, sender, args, ret) ==
    /\ outcome' = [op |-> op, sender |-> sender, args |-> args,
                   err |-> NoError, events |-> <<>>, ret |-> ret]
    /\ lastClaimAt' = [lastClaimAt EXCEPT ![sender] = now]
    /\ UNCHANGED <<paused, totalClaimed, minter, balances, totalSupply, now>>
    /\ UNCHANGED clientVars
    /\ UNCHANGED pageVars

\* a call of a view function: it returns ret and writes no storage
View(op, sender, args, ret) ==
    /\ outcome' = [op |-> op, sender |-> sender, args |-> args,
                   err |-> NoError, events |-> <<>>, ret |-> ret]
    /\ UNCHANGED <<paused, lastClaimAt, totalClaimed, minter, balances,
                   totalSupply, now>>
    /\ UNCHANGED clientVars
    /\ UNCHANGED pageVars

\* the storage after a transaction and the record of what it did
Apply(op, sender, args, r) ==
    /\ paused' = r.st.paused
    /\ lastClaimAt' = r.st.lastClaimAt
    /\ totalClaimed' = r.st.totalClaimed
    /\ minter' = r.st.minter
    /\ balances' = r.st.balances
    /\ totalSupply' = r.st.totalSupply
    /\ outcome' = [op |-> op, sender |-> sender, args |-> args,
                   err |-> r.err, events |-> r.events]
    /\ UNCHANGED now

\* a transaction sent directly to a contract: the client is not involved
Commit(op, sender, args, r) ==
    /\ Apply(op, sender, args, r)
    /\ UNCHANGED clientVars
    /\ UNCHANGED pageVars

NoCall == [op |-> "none", sender |-> ZERO, args |-> <<>>, err |-> NoError, events |-> <<>>]

\* null of the client's fields
NULL == "null"

\* txHash before the wallet returned a transaction
NoHash == 0

\* hashes of the transactions the client submits, one per call
Hashes == 1 .. MaxClientCalls

\* App state msg before any alert (null)
NoMsg == [type |-> "none", text |-> "", hash |-> NoHash]

\* no read function of the service has returned yet
NoRead ==
    [fn |-> "none", address |-> ZERO, failed |-> FALSE, threw |-> FALSE,
     value |-> [str |-> "", bool |-> FALSE, num |-> 0]]

\* a requestTokens call of the client that has not settled
NoResult == [kind |-> "none", text |-> "", detail |-> {}, hash |-> NoHash]

\* both contracts right after their constructors have run
Init ==
    /\ paused = FALSE
    /\ lastClaimAt = [a \in Address |-> 0]
    /\ totalClaimed = [a \in Address |-> 0]
    /\ minter = ZERO
    /\ balances = [a \in Address |-> 0]
    /\ totalSupply = 0
    /\ now = StartTime
    /\ outcome = NoCall
    /\ signer = NULL
    /\ currentAccount = NULL
    /\ pc = "idle"
    /\ txHash = NoHash
    /\ error = {}
    /\ result = NoResult
    /\ sends = 0
    /\ calls = 0
    /\ txStatus = [h \in Hashes |-> "none"]
    /\ connPc = "idle"
    /\ eligibleToClaim = FALSE
    /\ claiming = FALSE
    /\ uiMsg = NoMsg
    /\ appPc = "idle"
    /\ readResult = NoRead

RequestTokens(u) ==
    Commit("requestTokens", u, <<>>, requestTokens(St, u, now))

SetPaused(a, p) ==
    Commit("setPaused", a, <<p>>, setPaused(St, a, p))

SetMinter(a, m) ==
    Commit("setMinter", a, <<m>>, setMinter(St, a, m))

Mint(a, to, amount) ==
    Commit("mint", a, <<to, amount>>, mint(St, a, to, amount))

Transfer(a, to, amount) ==
    Commit("transfer", a, <<to, amount>>, transfer(St, a, to, amount))

CanClaim(a, u) == View("canClaim", a, <<u>>, canClaim(St, u, now))

RemainingAllowance(a, u) ==
    View("remainingAllowance", a, <<u>>, remainingAllowance(St, u))

TimeUntilNextClaim(a, u) ==
    View("timeUntilNextClaim", a, <<u>>, timeUntilNextClaim(St, u, now))

IsPaused(a) == View("isPaused", a, <<>>, isPaused(St))

BalanceOf(a, u) == View("balanceOf", a, <<u>>, balanceOf(St, u))

\* a later block: block.timestamp advances by d seconds
Tick(d, maxTime) ==
    /\ now + d <= maxTime
    /\ now' = now + d
    /\ outcome' = NoCall
    /\ UNCHANGED <<paused, lastClaimAt, totalClaimed, minter, balances, totalSupply>>
    /\ UNCHANGED clientVars
    /\ UNCHANGED pageVars

-----------------------------------------------------------------------------
(* Inputs *)

MinterArgs == {ZERO, FAUCET, OWNER}

MintSenders == {OWNER, USER2}

MintRecipients == {ZERO, OWNER}

MintAmounts == {0, MAX_SUPPLY - FAUCET_AMOUNT}

TransferRecipients == {ZERO} \cup Users

TickSteps == {COOLDOWN_TIME - 1, COOLDOWN_TIME}

MaxTime == StartTime + MaxCooldowns * COOLDOWN_TIME

MaxLifetimeTime == StartTime + MaxLifetimeCooldowns * COOLDOWN_TIME

-----------------------------------------------------------------------------
(* Spec: every operation by every sender, a horizon of MaxCooldowns *)

DoRequestTokens == \E u \in Users : RequestTokens(u)

DoSetPaused == \E a \in {OWNER, USER1} : \E p \in BOOLEAN : SetPaused(a, p)

DoSetMinter == \E a \in {OWNER, USER1} : \E m \in MinterArgs : SetMinter(a, m)

DoMint == \E a \in MintSenders : \E to \in MintRecipients : \E amount \in MintAmounts : Mint(a, to, amount)

DoTransfer == \E a \in Users : \E to \in TransferRecipients : Transfer(a, to, FAUCET_AMOUNT)

DoTick == \E d \in TickSteps : Tick(d, MaxTime)

Next ==
    \/ DoRequestTokens
    \/ DoSetPaused
    \/ DoSetMinter
    \/ DoMint
    \/ DoTransfer
    \/ DoTick

Spec == Init /\ [][Next]_vars

-----------------------------------------------------------------------------
(* SpecLifetime: one claimer over a horizon long enough to exhaust its      *)
(* lifetime allowance; the clock advances by whole cooldown periods         *)

LifetimeRequestTokens == RequestTokens(USER1)

LifetimeSetPaused == \E p \in BOOLEAN : SetPaused(OWNER, p)

LifetimeSetMinter == \E m \in {FAUCET, OWNER} : SetMinter(OWNER, m)

LifetimeMint == \E amount \in {MAX_SUPPLY - FAUCET_AMOUNT} : Mint(OWNER, OWNER, amount)

LifetimeTransfer == Transfer(USER1, USER2, FAUCET_AMOUNT)

LifetimeTick == Tick(COOLDOWN_TIME, MaxLifetimeTime)

LifetimeRemainingAllowance == RemainingAllowance(USER2, USER1)

NextLifetime ==
    \/ LifetimeRequestTokens
    \/ LifetimeSetPaused
    \/ LifetimeSetMinter
    \/ LifetimeMint
    \/ LifetimeTransfer
    \/ LifetimeTick
    \/ LifetimeRemainingAllowance

SpecLifetime == Init /\ [][NextLifetime]_vars

-----------------------------------------------------------------------------
(* Properties *)

RECURSIVE SumOf(_, _)
SumOf(f, S) ==
    IF S = {} THEN 0
    ELSE LET a == CHOOSE x \in S : TRUE
         IN  f[a] + SumOf(f, S \ {a})

\* the step is a requestTokens transaction sent by u
IsRequestBy(u) == outcome'.op = "requestTokens" /\ outcome'.sender = u

\* the step is a requestTokens transaction sent by u that did not revert
IsClaimBy(u) == IsRequestBy(u) /\ outcome'.err = NoError

-----------------------------------------------------------------------------
(* SpecReads: the transactions of Spec interleaved with calls of the view   *)
(* functions                                                                *)

ReadOps == {"canClaim", "remainingAllowance", "timeUntilNextClaim", "isPaused", "balanceOf"}

DoCanClaim == \E u \in Users : CanClaim(USER1, u)

DoRemainingAllowance == \E u \in Users : RemainingAllowance(USER1, u)

DoTimeUntilNextClaim == \E u \in Users : TimeUntilNextClaim(USER1, u)

DoIsPaused == IsPaused(USER1)

DoBalanceOf == \E u \in Users : BalanceOf(USER1, u)

NextReads ==
    \/ Next
    \/ DoCanClaim
    \/ DoRemainingAllowance
    \/ DoTimeUntilNextClaim
    \/ DoIsPaused
    \/ DoBalanceOf

SpecReads == Init /\ [][NextReads]_vars

-----------------------------------------------------------------------------
(* SpecFaucetMinter: the transactions and view calls of SpecReads, with the *)
(* owner never recording a minter other than the faucet                     *)

FaucetSetMinter == \E a \in {OWNER, USER1} : \E m \in {ZERO, FAUCET} : SetMinter(a, m)

NextFaucetMinter ==
    \/ DoRequestTokens
    \/ DoSetPaused
    \/ FaucetSetMinter
    \/ DoMint
    \/ DoTransfer
    \/ DoTick
    \/ DoCanClaim
    \/ DoRemainingAllowance
    \/ DoTimeUntilNextClaim
    \/ DoIsPaused
    \/ DoBalanceOf

SpecFaucetMinter == Init /\ [][NextFaucetMinter]_vars

\* C1: in every reachable state every identity has
\* 0 <= totalClaimed <= MAX_CLAIM_AMOUNT.
C1_TotalClaimedWithinCap ==
    \A a \in Address :
        /\ 0 <= totalClaimed[a]
        /\ totalClaimed[a] <= MAX_CLAIM_AMOUNT

\* an identity at its lifetime cap has just been refused one more claim
C1_Witness ==
    /\ outcome.op = "requestTokens"
    /\ outcome.err = ErrLifetime
    /\ totalClaimed[outcome.sender] = MAX_CLAIM_AMOUNT

\* C2: totalSupply never exceeds MAX_SUPPLY, and mint refuses every issuance
\* with totalSupply + amount > MAX_SUPPLY whoever calls it (the recorded
\* minter included) and whatever the faucet has recorded.
C2_SupplyWithinCap ==
    /\ totalSupply <= MAX_SUPPLY
    /\ \A a \in Address \ {ZERO} : \A to \in Address :
         \A amount \in MintAmounts \cup {FAUCET_AMOUNT} :
            totalSupply + amount > MAX_SUPPLY =>
                LET r == mint(St, a, to, amount)
                IN  r.err # NoError /\ r.st = St

\* the recorded minter has just been refused an issuance beyond the cap
C2_Witness ==
    /\ outcome.op = "mint"
    /\ outcome.sender = minter
    /\ outcome.err = ErrMaxSupply
    /\ totalSupply > 0

\* C3: the balances of all identities add up to totalSupply, across mints
\* and transfers.
C3_BalancesSumToSupply == SumOf(balances, Address) = totalSupply

\* tokens that were minted have just been transferred between identities
C3_Witness ==
    /\ outcome.op = "transfer"
    /\ outcome.err = NoError
    /\ totalSupply > 0
    /\ balances[outcome.args[1]] > 0

\* C4: lastClaimAt[u] is the time of u's latest successful claim (only a
\* successful claim of u changes it, to the current time), and a successful
\* claim of an identity that has claimed before happens at least
\* COOLDOWN_TIME after its latest one.
C4_CooldownSeparation ==
    [][\A u \in Senders :
          /\ IsClaimBy(u) =>
                /\ lastClaimAt'[u] = now
                /\ totalClaimed[u] > 0 => now >= lastClaimAt[u] + COOLDOWN_TIME
          /\ ~IsClaimBy(u) =>
                /\ lastClaimAt'[u] = lastClaimAt[u]
                /\ totalClaimed'[u] = totalClaimed[u]]_vars

\* an identity has just claimed for the second time, exactly one cooldown
\* after its first claim
C4_Witness ==
    /\ outcome.op = "requestTokens"
    /\ outcome.err = NoError
    /\ totalClaimed[outcome.sender] = 2 * FAUCET_AMOUNT
    /\ now = StartTime + COOLDOWN_TIME

\* C5: canClaim(u) is true exactly when requestTokens sent by u at the same
\* instant would succeed, the checks of Token.mint included.
C5_CanClaimAgreesWithRequest ==
    \A u \in Senders :
        canClaim(St, u, now) <=> (requestTokens(St, u, now).err = NoError)

\* C6: a requestTokens that passes the faucet's guards while the token
\* refuses the mint (the faucet is not the minter, or the cap would be
\* exceeded) reverts and leaves the storage of both contracts as it was.
C6_MintFailureRollsBack ==
    [][\A u \in Senders :
          ( /\ IsRequestBy(u)
            /\ claimGuards(St, u, now) = NoError
            /\ (minter # FAUCET \/ totalSupply + FAUCET_AMOUNT > MAX_SUPPLY) )
          => /\ outcome'.err \in {ErrOnlyMinter, ErrMaxSupply}
             /\ outcome'.events = <<>>
             /\ UNCHANGED <<paused, lastClaimAt, totalClaimed, minter,
                            balances, totalSupply>>]_vars

\* the faucet is the minter and a claim has just been refused by the token
\* because the supply cap would be exceeded
C6_Witness ==
    /\ outcome.op = "requestTokens"
    /\ outcome.err = ErrMaxSupply
    /\ minter = FAUCET
    /\ lastClaimAt[outcome.sender] = 0

\* C7: while not paused, a requestTokens by an identity with a recorded claim
\* and now < lastClaimAt + COOLDOWN_TIME reverts with the cooldown reason and
\* leaves its totalClaimed, lastClaimAt and balance unchanged.
C7_CooldownActiveRejected ==
    [][\A u \in Senders :
          ( /\ IsRequestBy(u)
            /\ ~paused
            /\ lastClaimAt[u] # 0
            /\ now < lastClaimAt[u] + COOLDOWN_TIME )
          => /\ outcome'.err = ErrCooldown
             /\ totalClaimed'[u] = totalClaimed[u]
             /\ lastClaimAt'[u] = lastClaimAt[u]
             /\ balances'[u] = balances[u]]_vars

\* a claim has just been refused one second before the cooldown ends
C7_Witness ==
    /\ outcome.op = "requestTokens"
    /\ outcome.err = ErrCooldown
    /\ totalClaimed[outcome.sender] = FAUCET_AMOUNT
    /\ now = lastClaimAt[outcome.sender] + COOLDOWN_TIME - 1

\* C8: while paused, canClaim is false for every identity and every
\* requestTokens reverts with the paused reason, changing nothing.
C8_PausedBlocksEveryClaim ==
    [][paused =>
          /\ \A u \in Senders :
                /\ ~canClaim(St, u, now)
                /\ IsRequestBy(u) => outcome'.err = ErrPaused
          /\ outcome'.op = "requestTokens" =>
                UNCHANGED <<paused, lastClaimAt, totalClaimed, minter,
                            balances, totalSupply>>]_vars

\* an identity that never claimed, with the faucet as minter, has just been
\* refused because the faucet is paused
C8_Witness ==
    /\ paused
    /\ outcome.op = "requestTokens"
    /\ outcome.err = ErrPaused
    /\ lastClaimAt[outcome.sender] = 0
    /\ minter = FAUCET

\* C9: setPaused changes nothing but paused (set to its argument when the
\* owner calls), so after it every identity's canClaim and requestTokens
\* result are those of the storage before the call with paused replaced.
C9_SetPausedFrame ==
    [][outcome'.op = "setPaused" =>
          /\ UNCHANGED <<lastClaimAt, totalClaimed, minter, balances,
                         totalSupply, now>>
          /\ paused' = IF outcome'.err = NoError THEN outcome'.args[1] ELSE paused
          /\ \A u \in Senders :
                /\ canClaim(St', u, now') =
                      (~paused' /\ canClaim([St EXCEPT !.paused = FALSE], u, now))
                /\ ~paused' =>
                      requestTokens(St', u, now').err =
                          requestTokens([St EXCEPT !.paused = FALSE], u, now).err]_vars

\* the owner has just unpaused the faucet and an identity that claimed
\* before the pause is eligible again
C9_Witness ==
    /\ outcome.op = "setPaused"
    /\ outcome.err = NoError
    /\ outcome.args = <<FALSE>>
    /\ \E u \in Users : totalClaimed[u] > 0 /\ canClaim(St, u, now)

\* C10: every successful claim adds exactly FAUCET_AMOUNT to the claimer's
\* totalClaimed and nothing else changes it, so MAX_CLAIM_AMOUNT \div
\* FAUCET_AMOUNT claims bring it to MAX_CLAIM_AMOUNT; an identity there has
\* remainingAllowance 0 and canClaim false, and its requestTokens after a
\* full cooldown, not paused, reverts with the lifetime reason.
C10_LifetimeCapReached ==
    [][\A u \in Senders :
          /\ totalClaimed'[u] =
                IF IsClaimBy(u) THEN totalClaimed[u] + FAUCET_AMOUNT
                ELSE totalClaimed[u]
          /\ totalClaimed[u] = (MAX_CLAIM_AMOUNT \div FAUCET_AMOUNT) * FAUCET_AMOUNT =>
                /\ totalClaimed[u] = MAX_CLAIM_AMOUNT
                /\ remainingAllowance(St, u) = 0
                /\ ~canClaim(St, u, now)
                /\ ( /\ IsRequestBy(u)
                     /\ ~paused
                     /\ now >= lastClaimAt[u] + COOLDOWN_TIME )
                   => outcome'.err = ErrLifetime]_vars

\* after ten claims and one more full cooldown the eleventh request has just
\* been refused with the lifetime reason
C10_Witness ==
    /\ outcome.op = "requestTokens"
    /\ outcome.err = ErrLifetime
    /\ totalClaimed[outcome.sender] = MAX_CLAIM_AMOUNT
    /\ balances[outcome.sender] + balances[USER2] = MAX_CLAIM_AMOUNT
    /\ now >= lastClaimAt[outcome.sender] + COOLDOWN_TIME
    /\ now = StartTime + MaxLifetimeCooldowns * COOLDOWN_TIME

\* C11: an identity with totalClaimed >= MAX_CLAIM_AMOUNT stays there: in
\* every later state canClaim is false for it and none of its requestTokens
\* succeeds, whatever the clock, the pause flag and the other operations do.
C11_ExhaustedIsTerminal ==
    [][\A u \in Senders :
          totalClaimed[u] >= MAX_CLAIM_AMOUNT =>
              /\ totalClaimed'[u] >= MAX_CLAIM_AMOUNT
              /\ ~canClaim(St, u, now)
              /\ ~canClaim(St', u, now')
              /\ ~IsClaimBy(u)]_vars

\* an exhausted identity whose cooldown has long elapsed, after the owner
\* has unpaused the faucet
C11_Witness ==
    /\ totalClaimed[USER1] >= MAX_CLAIM_AMOUNT
    /\ now >= lastClaimAt[USER1] + COOLDOWN_TIME
    /\ outcome.op = "setPaused"
    /\ outcome.err = NoError
    /\ ~paused
    /\ minter = FAUCET

\* C12: setPaused sent by anyone but the faucet's owner and setMinter sent by
\* anyone but the token's owner revert as unauthorized, emit nothing and
\* leave paused, the minter, the claim records and the balances unchanged.
C12_NonOwnerRejected ==
    [][( \/ outcome'.op = "setPaused" /\ outcome'.sender # faucetOwner
         \/ outcome'.op = "setMinter" /\ outcome'.sender # tokenOwner )
       => /\ outcome'.err = ErrNotOwner
          /\ outcome'.events = <<>>
          /\ UNCHANGED <<paused, minter, lastClaimAt, totalClaimed,
                         balances, totalSupply>>]_vars

\* a user has just been refused setMinter(owner) while the faucet is the
\* minter and has issued tokens
C12_Witness ==
    /\ outcome.op = "setMinter"
    /\ outcome.sender = USER1
    /\ outcome.args = <<OWNER>>
    /\ outcome.err = ErrNotOwner
    /\ minter = FAUCET
    /\ totalSupply > 0

\* C13: mint sent by anyone but the recorded minter (the token's owner
\* included, and while no minter has been set) reverts as unauthorized and
\* changes no balance and not totalSupply.
C13_OnlyMinterMints ==
    /\ [](\A a \in Senders \cup {FAUCET} : \A to \in Address :
             \A amount \in MintAmounts \cup {FAUCET_AMOUNT} :
                a # minter =>
                    LET r == mint(St, a, to, amount)
                    IN  r.err = ErrOnlyMinter /\ r.st = St)
    /\ [][(outcome'.op = "mint" /\ outcome'.sender # minter) =>
             /\ outcome'.err = ErrOnlyMinter
             /\ outcome'.events = <<>>
             /\ UNCHANGED <<balances, totalSupply, minter>>]_vars

\* the token's owner has just been refused a mint to itself while the
\* faucet is the recorded minter
C13_Witness ==
    /\ outcome.op = "mint"
    /\ outcome.sender = tokenOwner
    /\ outcome.args = <<OWNER, MAX_SUPPLY - FAUCET_AMOUNT>>
    /\ outcome.err = ErrOnlyMinter
    /\ minter = FAUCET

\* C14: requestTokens reverts with the reason of the first failing guard in
\* the order pause, cooldown, lifetime limit, allowance: paused gives the
\* paused reason whatever the claim record; unpaused, inside the cooldown
\* gives the cooldown reason also at the lifetime cap; the lifetime reason
\* only comes with the cooldown elapsed; the four reasons are distinct.
C14_GuardOrder ==
    [][/\ Cardinality({ErrPaused, ErrCooldown, ErrLifetime, ErrAllowance}) = 4
       /\ \A u \in Senders :
             IsRequestBy(u) =>
                LET inCooldown == lastClaimAt[u] # 0 /\ now < lastClaimAt[u] + COOLDOWN_TIME
                    atCap == totalClaimed[u] >= MAX_CLAIM_AMOUNT
                IN  /\ paused => outcome'.err = ErrPaused
                    /\ (~paused /\ inCooldown) => outcome'.err = ErrCooldown
                    /\ (~paused /\ ~inCooldown /\ atCap) => outcome'.err = ErrLifetime
                    /\ (~paused /\ ~inCooldown /\ ~atCap) =>
                          outcome'.err \notin {ErrPaused, ErrCooldown, ErrLifetime}]_vars

\* an unpaused request by an identity that is at its lifetime cap and still
\* inside its cooldown has just been refused with the cooldown reason
C14_Witness ==
    /\ outcome.op = "requestTokens"
    /\ outcome.err = ErrCooldown
    /\ ~paused
    /\ totalClaimed[outcome.sender] >= MAX_CLAIM_AMOUNT
    /\ now < lastClaimAt[outcome.sender] + COOLDOWN_TIME

\* C15: an identity without a claim record has canClaim true while the
\* faucet is not paused; a successful requestTokens at time t adds exactly
\* FAUCET_AMOUNT to the sender's balance, to its totalClaimed and to
\* totalSupply, sets its lastClaimAt to t, and timeUntilNextClaim at t is
\* COOLDOWN_TIME.
C15_ClaimEffects ==
    [][\A u \in Senders :
          /\ (lastClaimAt[u] = 0 /\ totalClaimed[u] = 0 /\ ~paused) =>
                canClaim(St, u, now)
          /\ IsClaimBy(u) =>
                /\ balanceOf(St', u) = balanceOf(St, u) + FAUCET_AMOUNT
                /\ totalClaimed'[u] = totalClaimed[u] + FAUCET_AMOUNT
                /\ totalSupply' = totalSupply + FAUCET_AMOUNT
                /\ lastClaimAt'[u] = now
                /\ now' = now
                /\ timeUntilNextClaim(St', u, now') = COOLDOWN_TIME]_vars

\* a fresh identity has just made its first claim
C15_Witness ==
    /\ outcome.op = "requestTokens"
    /\ outcome.err = NoError
    /\ totalClaimed[outcome.sender] = FAUCET_AMOUNT
    /\ balances[outcome.sender] = FAUCET_AMOUNT
    /\ lastClaimAt[outcome.sender] = now
    /\ totalSupply = FAUCET_AMOUNT

\* C16: a requestTokens sent by one identity, successful or reverted, leaves
\* lastClaimAt, totalClaimed and the balance of every other identity
\* unchanged, and with them the outcome of the other identity's cooldown and
\* lifetime guards.
C16_ClaimsAreIsolated ==
    [][\A a \in Senders :
          IsRequestBy(a) =>
             \A b \in Address \ {a} :
                /\ lastClaimAt'[b] = lastClaimAt[b]
                /\ totalClaimed'[b] = totalClaimed[b]
                /\ balances'[b] = balances[b]
                /\ cooldownGuard(St', b, now') = cooldownGuard(St, b, now)
                /\ lifetimeGuard(St', b) = lifetimeGuard(St, b)]_vars

\* one user has just claimed while the other user, who claimed earlier, is
\* still inside its own cooldown
C16_Witness ==
    /\ outcome.op = "requestTokens"
    /\ outcome.err = NoError
    /\ \E b \in Users \ {outcome.sender} :
          /\ totalClaimed[b] > 0
          /\ lastClaimAt[b] < now
          /\ now < lastClaimAt[b] + COOLDOWN_TIME

\* C17: in every step lastClaimAt and totalClaimed of every identity do not
\* decrease, and totalSupply does not decrease.
C17_Monotonic ==
    [][/\ \A a \in Address :
             /\ lastClaimAt'[a] >= lastClaimAt[a]
             /\ totalClaimed'[a] >= totalClaimed[a]
       /\ totalSupply' >= totalSupply]_vars

\* an identity has just claimed again, at a later time than its first claim
C17_Witness ==
    /\ outcome.op = "requestTokens"
    /\ outcome.err = NoError
    /\ lastClaimAt[outcome.sender] > StartTime
    /\ totalClaimed[outcome.sender] >= 2 * FAUCET_AMOUNT

\* C18 as stated: across any step that is neither a requestTokens nor a
\* setPaused, canClaim returns the same value for every identity.
C18_CanClaimStable ==
    [][outcome'.op \notin {"requestTokens", "setPaused"} =>
          \A u \in Senders : canClaim(St', u, now') = canClaim(St, u, now)]_vars

\* C18 (amended): across any step that is neither a requestTokens nor a
\* setPaused and in which block.timestamp does not advance, canClaim returns
\* the same value for every identity.
C18_CanClaimStableAtSameTime ==
    [][(outcome'.op \notin {"requestTokens", "setPaused"} /\ now' = now) =>
          \A u \in Senders : canClaim(St', u, now') = canClaim(St, u, now)]_vars

\* the minter has just been changed while an identity that claimed before
\* is eligible and another one is not
C18_Witness ==
    /\ outcome.op = "setMinter"
    /\ outcome.err = NoError
    /\ \E u \in Users : totalClaimed[u] > 0 /\ canClaim(St, u, now)
    /\ \E u \in Users : ~canClaim(St, u, now)

\* C19: a call of canClaim, remainingAllowance, timeUntilNextClaim, isPaused
\* or balanceOf leaves paused, the claim records, the minter, the balances
\* and totalSupply unchanged.
C19_ReadsChangeNothing ==
    [][outcome'.op \in ReadOps =>
          UNCHANGED <<paused, lastClaimAt, totalClaimed, minter, balances,
                      totalSupply>>]_vars

\* timeUntilNextClaim has just been read for an identity inside its cooldown
C19_Witness ==
    /\ outcome.op = "timeUntilNextClaim"
    /\ outcome.ret = 1
    /\ totalClaimed[outcome.args[1]] = FAUCET_AMOUNT
    /\ balances[outcome.args[1]] = 0

\* C20: whenever requestTokens passes its guards, the storage on which
\* token.mint is invoked already holds the sender's lastClaimAt = now and
\* totalClaimed increased by FAUCET_AMOUNT, so a requestTokens of the same
\* sender started on that storage reverts (cooldown); and a successful
\* requestTokens issues FAUCET_AMOUNT exactly once.
C20_EffectsBeforeMint ==
    /\ [](\A u \in Senders :
             claimGuards(St, u, now) = NoError =>
                LET s1 == claimEffects(St, u, now)
                IN  /\ s1.lastClaimAt[u] = now
                    /\ s1.totalClaimed[u] = totalClaimed[u] + FAUCET_AMOUNT
                    /\ s1.totalSupply = totalSupply
                    /\ requestTokens(s1, u, now).err = ErrCooldown
                    /\ requestTokens(s1, u, now).st = s1)
    /\ [][\A u \in Senders :
             IsClaimBy(u) =>
                /\ totalSupply' = totalSupply + FAUCET_AMOUNT
                /\ balances'[u] = balances[u] + FAUCET_AMOUNT
                /\ Cardinality({i \in DOMAIN outcome'.events :
                                   outcome'.events[i].event = "Transfer"}) = 1
                /\ \A i \in DOMAIN outcome'.events :
                      outcome'.events[i].event = "Transfer" =>
                         /\ outcome'.events[i].to = u
                         /\ outcome'.events[i].value = FAUCET_AMOUNT]_vars

\* an identity has just made its second claim and holds exactly the two
\* issuances
C20_Witness ==
    /\ outcome.op = "requestTokens"
    /\ outcome.err = NoError
    /\ Len(outcome.events) = 2
    /\ totalClaimed[outcome.sender] = 2 * FAUCET_AMOUNT
    /\ balances[outcome.sender] = 2 * FAUCET_AMOUNT
    /\ totalSupply = 2 * FAUCET_AMOUNT

\* C21: while the recorded minter has never been anyone but the faucet,
\* every state that a view call can observe has totalSupply (and the sum of
\* the balances) equal to the sum of totalClaimed over all identities: no
\* claim record is ever advanced without its issuance.
C21_SupplyMatchesClaims ==
    minter \in {ZERO, FAUCET} =>
        /\ totalSupply = SumOf(totalClaimed, Address)
        /\ SumOf(balances, Address) = SumOf(totalClaimed, Address)

\* a view call has just observed the state after both users claimed and
\* tokens were moved between them
C21_Witness ==
    /\ outcome.op = "balanceOf"
    /\ outcome.ret = 2 * FAUCET_AMOUNT
    /\ totalClaimed[USER1] = FAUCET_AMOUNT
    /\ totalClaimed[USER2] = FAUCET_AMOUNT

\* C22: a successful requestTokens emits exactly one Transfer(address(0),
\* sender, FAUCET_AMOUNT) and exactly one TokensClaimed(sender,
\* FAUCET_AMOUNT, block.timestamp) and nothing else; a requestTokens,
\* setPaused or setMinter that reverts emits no event.
C22_EventsExactlyOnce ==
    [][/\ \A u \in Senders :
             IsClaimBy(u) =>
                outcome'.events =
                   << [event |-> "Transfer", from |-> ZERO, to |-> u,
                       value |-> FAUCET_AMOUNT],
                      [event |-> "TokensClaimed", user |-> u,
                       amount |-> FAUCET_AMOUNT, timestamp |-> now] >>
       /\ ( /\ outcome'.op \in {"requestTokens", "setPaused", "setMinter"}
            /\ outcome'.err # NoError )
          => outcome'.events = <<>>]_vars

\* user2 has just claimed in a later block and the claim event carries that
\* block's timestamp
C22_Witness ==
    /\ outcome.op = "requestTokens"
    /\ outcome.sender = USER2
    /\ outcome.err = NoError
    /\ Len(outcome.events) = 2
    /\ outcome.events[2].timestamp = now
    /\ now > StartTime

\* C23: setPaused(v) sent by the owner always succeeds, sets paused to v and
\* emits exactly one FaucetPaused(v), also when paused is already v.
C23_SetPausedAlwaysSignals ==
    /\ [](\A v \in BOOLEAN :
             LET r == setPaused(St, faucetOwner, v)
             IN  /\ r.err = NoError
                 /\ r.st = [St EXCEPT !.paused = v]
                 /\ r.events = << [event |-> "FaucetPaused", paused |-> v] >>)
    /\ [][(outcome'.op = "setPaused" /\ outcome'.sender = faucetOwner) =>
             /\ outcome'.err = NoError
             /\ paused' = outcome'.args[1]
             /\ outcome'.events =
                   << [event |-> "FaucetPaused", paused |-> outcome'.args[1]] >>]_vars

\* the owner has just paused the faucet and the event was emitted
C23_Witness ==
    /\ outcome.op = "setPaused"
    /\ outcome.sender = faucetOwner
    /\ outcome.args = <<TRUE>>
    /\ outcome.events = << [event |-> "FaucetPaused", paused |-> TRUE] >>
    /\ paused

C25_MintGuardOrder ==
    /\ [](\A a \in Senders \cup {FAUCET} : \A to \in Address :
             \A amount \in MintAmounts \cup {FAUCET_AMOUNT} :
                LET r == mint(St, a, to, amount)
                    overCap == totalSupply + amount > MAX_SUPPLY
                IN  /\ to = ZERO => (r.err # NoError /\ r.st = St /\ r.events = <<>>)
                    /\ a # minter => r.err = ErrOnlyMinter
                    /\ (a = minter /\ overCap) => r.err = ErrMaxSupply
                    /\ (a = minter /\ ~overCap /\ to = ZERO) => r.err = ErrMintZero)
    /\ [][(outcome'.op = "mint" /\ outcome'.args[1] = ZERO) =>
             /\ outcome'.err =
                   IF outcome'.sender # minter THEN ErrOnlyMinter
                   ELSE IF totalSupply + outcome'.args[2] > MAX_SUPPLY THEN ErrMaxSupply
                   ELSE ErrMintZero
             /\ UNCHANGED <<paused, lastClaimAt, totalClaimed, minter,
                            balances, totalSupply>>]_vars

\* the recorded minter has just been refused a mint to address(0) that
\* would also exceed the cap, with the cap reason
C25_Witness ==
    /\ outcome.op = "mint"
    /\ outcome.sender = minter
    /\ outcome.args = <<ZERO, MAX_SUPPLY - FAUCET_AMOUNT>>
    /\ outcome.err = ErrMaxSupply

\* C26: setMinter(x) sent by the owner with x # address(0) makes x the
\* minter in place of any earlier one, so that only x can mint and, when x
\* is not the faucet, no requestTokens succeeds; setMinter(address(0))
\* reverts and leaves the minter as it was; a second setMinter(x) leaves
\* the storage of the first.
C26_SetMinterOverwrites ==
    /\ [](\A x \in MinterArgs :
             LET r == setMinter(St, tokenOwner, x)
             IN  IF x = ZERO
                 THEN r.err = ErrMinterZero /\ r.st = St
                 ELSE /\ r.err = NoError
                      /\ r.st = [St EXCEPT !.minter = x]
                      /\ setMinter(r.st, tokenOwner, x).st = r.st
                      /\ \A a \in (Senders \cup {FAUCET}) \ {x} :
                            mint(r.st, a, USER1, FAUCET_AMOUNT).err = ErrOnlyMinter
                      /\ x # FAUCET =>
                            \A u \in Senders :
                               requestTokens(r.st, u, now).err # NoError)
    /\ [][/\ (outcome'.op = "setMinter" /\ outcome'.sender = tokenOwner) =>
                /\ minter' = IF outcome'.args[1] = ZERO THEN minter
                             ELSE outcome'.args[1]
                /\ outcome'.err = IF outcome'.args[1] = ZERO THEN ErrMinterZero
                                  ELSE NoError
                /\ UNCHANGED <<paused, lastClaimAt, totalClaimed, balances,
                               totalSupply>>
          /\ \A u \in Senders : IsClaimBy(u) => minter = FAUCET
          /\ (outcome'.op = "mint" /\ outcome'.err = NoError) =>
                outcome'.sender = minter]_vars

\* after the faucet issued tokens the owner recorded itself as minter, and
\* a claim has just been refused by the token
C26_Witness ==
    /\ outcome.op = "requestTokens"
    /\ outcome.err = ErrOnlyMinter
    /\ minter = OWNER
    /\ \E u \in Users : totalClaimed[u] > 0

\* C27: for every address remainingAllowance is MAX_CLAIM_AMOUNT minus the
\* address's totalClaimed, and 0 once totalClaimed has reached
\* MAX_CLAIM_AMOUNT; it lies between 0 and MAX_CLAIM_AMOUNT, and a call
\* returns that value.
C27_RemainingAllowanceValue ==
    /\ [](\A u \in Address :
             LET ra == remainingAllowance(St, u)
             IN  /\ ra = IF totalClaimed[u] >= MAX_CLAIM_AMOUNT THEN 0
                         ELSE MAX_CLAIM_AMOUNT - totalClaimed[u]
                 /\ ra >= 0
                 /\ ra <= MAX_CLAIM_AMOUNT
                 /\ MAX_CLAIM_AMOUNT - totalClaimed[u] >= 0)
    /\ [][outcome'.op = "remainingAllowance" =>
             LET u == outcome'.args[1]
             IN  outcome'.ret = IF totalClaimed[u] >= MAX_CLAIM_AMOUNT THEN 0
                                ELSE MAX_CLAIM_AMOUNT - totalClaimed[u]]_vars

\* a call has returned 0 for an address that claimed its whole allowance
C27_Witness ==
    /\ outcome.op = "remainingAllowance"
    /\ outcome.ret = 0
    /\ totalClaimed[outcome.args[1]] = MAX_CLAIM_AMOUNT

\* a call has returned a partial allowance
C27_WitnessPartial ==
    /\ outcome.op = "remainingAllowance"
    /\ outcome.ret = MAX_CLAIM_AMOUNT - 3 * FAUCET_AMOUNT

\* C28: for every address and every block time, timeUntilNextClaim is 0 when
\* the address never claimed or the time is at least lastClaimAt +
\* COOLDOWN_TIME, and lastClaimAt + COOLDOWN_TIME minus the time otherwise;
\* it is 0 exactly when the cooldown check of requestTokens passes, and a
\* call returns that value.
C28_TimeUntilNextClaimValue ==
    /\ [](\A u \in Address :
             \A ts \in {now, lastClaimAt[u] + COOLDOWN_TIME - 1,
                        lastClaimAt[u] + COOLDOWN_TIME,
                        lastClaimAt[u] + COOLDOWN_TIME + 1} :
                LET t == timeUntilNextClaim(St, u, ts)
                IN  /\ t = IF lastClaimAt[u] = 0 \/ ts >= lastClaimAt[u] + COOLDOWN_TIME
                           THEN 0
                           ELSE lastClaimAt[u] + COOLDOWN_TIME - ts
                    /\ t >= 0
                    /\ (t = 0) <=> cooldownGuard(St, u, ts))
    /\ [][outcome'.op = "timeUntilNextClaim" =>
             LET u == outcome'.args[1]
             IN  /\ outcome'.ret =
                       IF lastClaimAt[u] = 0 \/ now >= lastClaimAt[u] + COOLDOWN_TIME
                       THEN 0
                       ELSE lastClaimAt[u] + COOLDOWN_TIME - now
                 /\ (outcome'.ret = 0) <=> cooldownGuard(St, u, now)
                 /\ ~paused =>
                       ((outcome'.ret = 0) <=>
                           requestTokens(St, u, now).err # ErrCooldown)]_vars

\* a call one second before the end of an address's cooldown has returned 1
C28_Witness ==
    /\ outcome.op = "timeUntilNextClaim"
    /\ outcome.ret = 1
    /\ lastClaimAt[outcome.args[1]] # 0
    /\ now = lastClaimAt[outcome.args[1]] + COOLDOWN_TIME - 1

\* a call at the end of an address's cooldown has returned 0
C28_WitnessElapsed ==
    /\ outcome.op = "timeUntilNextClaim"
    /\ outcome.ret = 0
    /\ lastClaimAt[outcome.args[1]] # 0

-----------------------------------------------------------------------------
(* SpecFair: claims, pausing and canClaim calls while the block time keeps  *)
(* advancing by half a cooldown period up to the horizon; a claim is sent   *)
(* only while a whole cooldown period is left before the horizon            *)

FairTickStep == COOLDOWN_TIME \div 2

MaxFairTime == StartTime + MaxFairCooldowns * COOLDOWN_TIME

FairRequestTokens ==
    /\ now + COOLDOWN_TIME <= MaxFairTime
    /\ \E u \in Users : RequestTokens(u)

FairSetPaused == \E p \in BOOLEAN : SetPaused(OWNER, p)

FairSetMinter == SetMinter(OWNER, FAUCET)

FairCanClaim == \E u \in Users : CanClaim(USER2, u)

FairTick == Tick(FairTickStep, MaxFairTime)

NextFair ==
    \/ FairRequestTokens
    \/ FairSetPaused
    \/ FairSetMinter
    \/ FairCanClaim
    \/ FairTick

SpecFair == Init /\ [][NextFair]_vars /\ WF_vars(FairTick)

\* u's cooldown has run out: u claimed before and the block time has reached
\* lastClaimAt + COOLDOWN_TIME
CooldownOver(u) == lastClaimAt[u] # 0 /\ now >= lastClaimAt[u] + COOLDOWN_TIME

\* C29: after a requestTokens of u that succeeded and left totalClaimed[u]
\* below MAX_CLAIM_AMOUNT, with the block time advancing the time reaches
\* lastClaimAt[u] + COOLDOWN_TIME; from then until u's next claim the
\* cooldown stays over, and whenever the faucet is not paused canClaim(u)
\* is true and requestTokens of u passes its pause, cooldown and lifetime
\* checks.
C29_ClaimableAgain ==
    /\ \A u \in Users :
          []((/\ outcome.op = "requestTokens"
              /\ outcome.sender = u
              /\ outcome.err = NoError
              /\ totalClaimed[u] < MAX_CLAIM_AMOUNT)
             => <>(CooldownOver(u) /\ totalClaimed[u] < MAX_CLAIM_AMOUNT))
    /\ [](\A u \in Users :
             (CooldownOver(u) /\ totalClaimed[u] < MAX_CLAIM_AMOUNT /\ ~paused) =>
                /\ canClaim(St, u, now)
                /\ cooldownGuard(St, u, now)
                /\ claimGuards(St, u, now) = NoError)
    /\ [][\A u \in Users :
             /\ (CooldownOver(u) /\ ~IsClaimBy(u)) =>
                   /\ lastClaimAt'[u] = lastClaimAt[u]
                   /\ totalClaimed'[u] = totalClaimed[u]
                   /\ now' >= lastClaimAt'[u] + COOLDOWN_TIME
             /\ (/\ outcome'.op = "canClaim"
                 /\ outcome'.args = <<u>>
                 /\ CooldownOver(u)
                 /\ totalClaimed[u] < MAX_CLAIM_AMOUNT
                 /\ ~paused) => outcome'.ret = TRUE]_vars

\* canClaim has returned true for an address exactly one cooldown period
\* after its claim
C29_Witness ==
    /\ outcome.op = "canClaim"
    /\ outcome.ret = TRUE
    /\ lastClaimAt[outcome.args[1]] # 0
    /\ now = lastClaimAt[outcome.args[1]] + COOLDOWN_TIME
    /\ totalClaimed[outcome.args[1]] = FAUCET_AMOUNT

\* an address has claimed a second time, after its cooldown
C29_WitnessSecondClaim ==
    /\ outcome.op = "requestTokens"
    /\ outcome.err = NoError
    /\ totalClaimed[outcome.sender] = 2 * FAUCET_AMOUNT

-----------------------------------------------------------------------------
(* Web3Service.requestTokens, the wallet in front of it and the chain       *)
(* behind it.  An error message is the set of the fragments it contains, so *)
(* that msg.includes(x) is x \in msg.                                       *)

\* the account the wallet exposes
WalletAccount == USER1

MsgWalletUnavailable == "Wallet not available."

MsgNoAccounts == "No accounts found. Please unlock your wallet."

MsgPaused == "The faucet is currently paused."

MsgCooldown == "You must wait 24 hours between claims."

MsgLifetime == "You have reached the maximum lifetime claim limit."

MsgRejected == "Transaction was rejected."

MsgClaimFailed == "Claim failed: "

\* message of the wallet's error when the user declines
RejectedByUser == {"user rejected", "ACTION_REJECTED"}

\* message of an error of the connection to the wallet or the node
TransportFailure == {"network error"}

\* the call returns value h
Resolved(h) == [kind |-> "resolved", text |-> "", detail |-> {}, hash |-> h]

\* the call throws new Error(text + detail)
Thrown(text, detail) == [kind |-> "thrown", text |-> text, detail |-> detail, hash |-> NoHash]

\* the catch block of requestTokens
catchError(msg, hash) ==
    IF ErrPaused \in msg THEN Thrown(MsgPaused, {})
    ELSE IF ErrCooldown \in msg THEN Thrown(MsgCooldown, {})
    ELSE IF ErrLifetime \in msg THEN Thrown(MsgLifetime, {})
    ELSE IF "user rejected" \in msg \/ "ACTION_REJECTED" \in msg THEN Thrown(MsgRejected, {})
    ELSE IF hash # NoHash THEN Resolved(hash)
    ELSE Thrown(MsgClaimFailed, msg)

\* what awaiting faucetWithSigner.requestTokens() can give: the call is
\* simulated first and a revert is thrown with its reason; otherwise the user
\* approves and the transaction is submitted, or the user declines, or the
\* connection fails
walletSend(s, account, ts) ==
    LET r == requestTokens(s, account, ts)
    IN  IF r.err # NoError
        THEN { [ok |-> FALSE, msg |-> {"execution reverted", r.err}] }
        ELSE { [ok |-> TRUE, msg |-> {}],
               [ok |-> FALSE, msg |-> RejectedByUser],
               [ok |-> FALSE, msg |-> TransportFailure] }

ChainUnchanged ==
    UNCHANGED <<paused, lastClaimAt, totalClaimed, minter, balances, totalSupply,
                now, outcome>>

\* a call of requestTokens() starts
StartRequestTokens ==
    /\ calls < MaxClientCalls
    /\ calls' = calls + 1
    /\ pc' = "ensureSignerReady"
    /\ txHash' = NoHash
    /\ error' = {}
    /\ result' = NoResult
    /\ sends' = 0
    /\ UNCHANGED <<signer, currentAccount, txStatus>>
    /\ ChainUnchanged

\* requestTokens() is called on the service, one call at a time
ClientRequestTokens ==
    /\ pc = "idle"
    /\ StartRequestTokens
    /\ UNCHANGED pageVars

\* ensureSignerReady: nothing to do with a signer, connectWallet with a
\* wallet in the page, an error otherwise (thrown outside the try block)
ClientEnsureSignerReady ==
    /\ pc = "ensureSignerReady"
    /\ IF signer # NULL
       THEN pc' = "send" /\ UNCHANGED result
       ELSE \E isWalletAvailable \in BOOLEAN :
               IF isWalletAvailable
               THEN pc' = "connectAccounts" /\ UNCHANGED result
               ELSE pc' = "idle" /\ result' = Thrown(MsgWalletUnavailable, {})
    /\ UNCHANGED <<signer, currentAccount, txHash, error, sends, calls, txStatus>>
    /\ ChainUnchanged
    /\ UNCHANGED pageVars

\* connectWallet: eth_requestAccounts answers
ClientConnectAccounts ==
    /\ pc = "connectAccounts"
    /\ \/ \E accounts \in {<<>>, <<WalletAccount>>} :
             IF Len(accounts) = 0
             THEN /\ pc' = "idle"
                  /\ result' = Thrown(MsgNoAccounts, {})
                  /\ UNCHANGED currentAccount
             ELSE /\ currentAccount' = accounts[1]
                  /\ pc' = "connectSigner"
                  /\ UNCHANGED result
       \/ /\ pc' = "idle"
          /\ result' = Thrown("", RejectedByUser)
          /\ UNCHANGED currentAccount
    /\ UNCHANGED <<signer, txHash, error, sends, calls, txStatus>>
    /\ ChainUnchanged
    /\ UNCHANGED pageVars

\* connectWallet: browserProvider.getSigner() answers
ClientConnectSigner ==
    /\ pc = "connectSigner"
    /\ \/ signer' = WalletAccount /\ pc' = "connectNetwork" /\ UNCHANGED result
       \/ /\ pc' = "idle"
          /\ result' = Thrown("", TransportFailure)
          /\ UNCHANGED signer
    /\ UNCHANGED <<currentAccount, txHash, error, sends, calls, txStatus>>
    /\ ChainUnchanged
    /\ UNCHANGED pageVars

\* connectWallet: the network check, whose failures are swallowed
ClientConnectNetwork ==
    /\ pc = "connectNetwork"
    /\ pc' = "send"
    /\ UNCHANGED <<signer, currentAccount, txHash, error, result, sends, calls, txStatus>>
    /\ ChainUnchanged
    /\ UNCHANGED pageVars

\* message of the error of a contract built without a signer
NoSigner == {"contract runner does not support sending transactions"}

\* the contract is built with this.signer and faucetWithSigner.requestTokens()
\* is called; without a signer the call throws at once, into the catch block
ClientSend ==
    /\ pc = "send"
    /\ sends' = sends + 1
    /\ IF signer = NULL
       THEN /\ error' = NoSigner
            /\ result' = catchError(NoSigner, txHash)
            /\ pc' = "idle"
       ELSE /\ pc' = "sending"
            /\ UNCHANGED <<error, result>>
    /\ UNCHANGED <<signer, currentAccount, txHash, calls, txStatus>>
    /\ ChainUnchanged
    /\ UNCHANGED pageVars

ClientSendReturns_retriesOnRevert ==
    /\ pc = "sending"
    /\ \E o \in walletSend(St, WalletAccount, now) :
          IF o.ok
          THEN /\ txHash' = calls
               /\ txStatus' = [txStatus EXCEPT ![calls] = "pending"]
               /\ pc' = "wait1"
               /\ UNCHANGED <<error, result>>
          ELSE IF "execution reverted" \in o.msg
          THEN /\ error' = o.msg
               /\ pc' = "send"
               /\ UNCHANGED <<txHash, txStatus, result>>
          ELSE /\ error' = o.msg
               /\ result' = catchError(o.msg, txHash)
               /\ pc' = "idle"
               /\ UNCHANGED <<txHash, txStatus>>
    /\ UNCHANGED <<signer, currentAccount, sends, calls>>
    /\ ChainUnchanged
    /\ UNCHANGED pageVars

\* faucetWithSigner.requestTokens() settles: with a transaction, whose hash
\* is kept, or with an error, which the catch block translates
ClientSendReturns ==
    /\ pc = "sending"
    /\ \E o \in walletSend(St, WalletAccount, now) :
          IF o.ok
          THEN /\ txHash' = calls
               /\ txStatus' = [txStatus EXCEPT ![calls] = "pending"]
               /\ pc' = "wait1"
               /\ UNCHANGED <<error, result>>
          ELSE /\ error' = o.msg
               /\ result' = catchError(o.msg, txHash)
               /\ pc' = "idle"
               /\ UNCHANGED <<txHash, txStatus>>
    /\ UNCHANGED <<signer, currentAccount, sends, calls>>
    /\ ChainUnchanged
    /\ UNCHANGED pageVars

\* strategy 1: tx.wait(1) raced against a timer; it resolves once the
\* transaction is mined with success, and fails on a revert, a timeout or a
\* connection error
ClientWait1 ==
    /\ pc = "wait1"
    /\ \/ /\ txStatus[txHash] = "success"
          /\ result' = Resolved(txHash)
          /\ pc' = "idle"
       \/ /\ pc' = "wait2"
          /\ UNCHANGED result
    /\ UNCHANGED <<signer, currentAccount, txHash, error, sends, calls, txStatus>>
    /\ ChainUnchanged
    /\ UNCHANGED pageVars

ClientWait2_throwsOnFailure ==
    /\ pc = "wait2"
    /\ \/ result' = Resolved(txHash)
       \/ result' = Thrown(MsgClaimFailed, TransportFailure)
    /\ pc' = "idle"
    /\ UNCHANGED <<signer, currentAccount, txHash, error, sends, calls, txStatus>>
    /\ ChainUnchanged
    /\ UNCHANGED pageVars

\* strategy 2: waitForTransaction on the read provider; the hash is returned
\* whether it resolves or fails
ClientWait2 ==
    /\ pc = "wait2"
    /\ result' = Resolved(txHash)
    /\ pc' = "idle"
    /\ UNCHANGED <<signer, currentAccount, txHash, error, sends, calls, txStatus>>
    /\ ChainUnchanged
    /\ UNCHANGED pageVars

\* a submitted transaction is mined: requestTokens runs from the wallet's account
ChainMine ==
    \E h \in Hashes :
       /\ txStatus[h] = "pending"
       /\ LET r == requestTokens(St, WalletAccount, now)
          IN  /\ Apply("requestTokens", WalletAccount, <<>>, r)
              /\ txStatus' = [txStatus EXCEPT ![h] =
                                 IF r.err = NoError THEN "success" ELSE "reverted"]
       /\ UNCHANGED <<signer, currentAccount, pc, txHash, error, result, sends, calls>>
       /\ UNCHANGED pageVars

-----------------------------------------------------------------------------
(* SpecClient: the client's requestTokens against the contracts, with the   *)
(* owner pausing, claims sent without the client and the block time         *)
(* advancing by whole cooldown periods                                      *)

MaxClientTime == StartTime + MaxClientCooldowns * COOLDOWN_TIME

ChainSetPaused == \E p \in BOOLEAN : SetPaused(OWNER, p)

ChainSetMinter == SetMinter(OWNER, FAUCET)

ChainRequestTokens == RequestTokens(WalletAccount)

ChainTick == Tick(COOLDOWN_TIME, MaxClientTime)

NextClient ==
    \/ ClientRequestTokens
    \/ ClientEnsureSignerReady
    \/ ClientConnectAccounts
    \/ ClientConnectSigner
    \/ ClientConnectNetwork
    \/ ClientSend
    \/ ClientSendReturns
    \/ ClientWait1
    \/ ClientWait2
    \/ ChainMine
    \/ ChainSetPaused
    \/ ChainSetMinter
    \/ ChainRequestTokens
    \/ ChainTick

SpecClient == Init /\ [][NextClient]_vars

\* fragments of error messages that the catch block of requestTokens looks for,
\* and one it does not
ClientFragments == {ErrPaused, ErrCooldown, ErrLifetime, "user rejected", "network error"}

\* the running client call got an error from faucetWithSigner.requestTokens()
\* in this step
SendFailed == pc = "sending" /\ pc' # "sending" /\ txHash' = NoHash

\* C30: one call of the client's requestTokens calls
\* faucetWithSigner.requestTokens() at most once, and the client submits no
\* more transactions than calls were made; when that single submission fails
\* with the faucet-paused, cooldown or lifetime-limit revert reason, or with
\* a rejection by the user, the call ends at once by throwing the translated
\* error, without submitting again.
C30_SubmitsAtMostOnce ==
    /\ [](/\ sends <= 1
          /\ Cardinality({h \in Hashes : txStatus[h] # "none"}) <= calls
          /\ result.kind # "none" => pc = "idle"
          /\ \A msg \in SUBSET ClientFragments :
                LET r == catchError(msg, NoHash)
                IN  /\ r.kind = "thrown"
                    /\ ErrPaused \in msg => r.text = MsgPaused
                    /\ (ErrCooldown \in msg /\ ErrPaused \notin msg) =>
                          r.text = MsgCooldown
                    /\ (ErrLifetime \in msg /\ {ErrPaused, ErrCooldown} \cap msg = {}) =>
                          r.text = MsgLifetime
                    /\ ("user rejected" \in msg
                        /\ {ErrPaused, ErrCooldown, ErrLifetime} \cap msg = {}) =>
                          r.text = MsgRejected)
    /\ [][/\ sends' > sends => (pc = "send" /\ sends = 0)
          /\ SendFailed =>
                /\ pc' = "idle"
                /\ result'.kind = "thrown"
                /\ sends' = sends
                /\ txStatus' = txStatus
                /\ ErrPaused \in error' => (paused /\ result'.text = MsgPaused)
                /\ ErrCooldown \in error' =>
                      (~cooldownGuard(St, WalletAccount, now)
                       /\ result'.text = MsgCooldown)
                /\ ErrLifetime \in error' =>
                      (~lifetimeGuard(St, WalletAccount)
                       /\ result'.text = MsgLifetime)
                /\ error' = RejectedByUser => result'.text = MsgRejected
          /\ (pc = "sending" /\ claimGuards(St, WalletAccount, now) # NoError) =>
                (SendFailed \/ pc' = pc)]_vars

\* the client's call made one submission, which the faucet refused during the
\* cooldown, and has thrown the cooldown message
C30_Witness ==
    /\ result = Thrown(MsgCooldown, {})
    /\ ErrCooldown \in error
    /\ sends = 1
    /\ pc = "idle"

\* the same with the faucet paused
C30_WitnessPaused ==
    /\ result = Thrown(MsgPaused, {})
    /\ ErrPaused \in error
    /\ sends = 1

\* the same once the account has claimed MAX_CLAIM_AMOUNT
C30_WitnessLifetime ==
    /\ result = Thrown(MsgLifetime, {})
    /\ ErrLifetime \in error
    /\ sends = 1

\* the same when the user declined in the wallet
C30_WitnessRejected ==
    /\ result = Thrown(MsgRejected, {})
    /\ error = RejectedByUser
    /\ sends = 1

\* C32: FAUCET_AMOUNT divides MAX_CLAIM_AMOUNT and every address's
\* totalClaimed is a multiple of FAUCET_AMOUNT, so an address that passes the
\* lifetime check of requestTokens also passes the allowance check: no
\* requestTokens reverts with "Insufficient faucet balance".
C32_AllowanceGuardUnreachable ==
    /\ [](/\ MAX_CLAIM_AMOUNT % FAUCET_AMOUNT = 0
          /\ \A u \in Address :
                /\ totalClaimed[u] % FAUCET_AMOUNT = 0
                /\ lifetimeGuard(St, u) => allowanceGuard(St, u)
                /\ requestTokens(St, u, now).err # ErrAllowance)
    /\ [][\A u \in Senders : IsRequestBy(u) => outcome'.err # ErrAllowance]_vars

\* the claim that uses up the last FAUCET_AMOUNT of an address's allowance
\* has passed the allowance check
C32_Witness ==
    /\ outcome.op = "requestTokens"
    /\ outcome.err = NoError
    /\ totalClaimed[outcome.sender] = MAX_CLAIM_AMOUNT

\* a request of an address that has claimed MAX_CLAIM_AMOUNT was refused by
\* the lifetime check
C32_WitnessRefused ==
    /\ outcome.op = "requestTokens"
    /\ outcome.err = ErrLifetime
    /\ ~paused

\* C33: for every address, lastClaimAt is non-zero exactly when totalClaimed
\* is positive (a block timestamp is never 0), and a requestTokens that
\* succeeds makes both so for its sender.
C33_ClaimedIffTimestamped ==
    /\ [](/\ now >= 1
          /\ \A u \in Address : (lastClaimAt[u] # 0) <=> (totalClaimed[u] > 0))
    /\ [][\A u \in Senders :
             IsClaimBy(u) => (lastClaimAt'[u] # 0 /\ totalClaimed'[u] > 0)]_vars

\* one address has claimed and another has not
C33_Witness ==
    /\ outcome.op = "requestTokens"
    /\ outcome.err = NoError
    /\ lastClaimAt[outcome.sender] # 0
    /\ totalClaimed[outcome.sender] > 0
    /\ \E u \in Users : lastClaimAt[u] = 0 /\ totalClaimed[u] = 0 /\ canClaim(St, u, now)

\* C34: a transfer of tokens changes no balance but the sender's and the
\* recipient's, by the amount sent, and leaves totalSupply, paused, minter and
\* every address's lastClaimAt and totalClaimed as they were, so
\* remainingAllowance, timeUntilNextClaim and canClaim of every address are
\* what they were before it.
C34_TransferFrame ==
    [][outcome'.op = "transfer" =>
          LET from == outcome'.sender
              to == outcome'.args[1]
              amount == outcome'.args[2]
              moved == outcome'.err = NoError /\ from # to
          IN  /\ UNCHANGED <<totalSupply, paused, minter, lastClaimAt, totalClaimed, now>>
              /\ \A a \in Address \ {from, to} : balances'[a] = balances[a]
              /\ balances'[from] = IF moved THEN balances[from] - amount ELSE balances[from]
              /\ to \in Address =>
                    balances'[to] = IF moved THEN balances[to] + amount ELSE balances[to]
              /\ \A u \in Address :
                    /\ remainingAllowance(St, u)' = remainingAllowance(St, u)
                    /\ timeUntilNextClaim(St, u, now)' = timeUntilNextClaim(St, u, now)
                    /\ canClaim(St, u, now)' = canClaim(St, u, now)]_vars

\* an address has transferred away all it received from the faucet and its
\* allowance is still reduced by it
C34_Witness ==
    /\ outcome.op = "transfer"
    /\ outcome.err = NoError
    /\ outcome.sender # outcome.args[1]
    /\ balances[outcome.sender] = 0
    /\ balances[outcome.args[1]] >= FAUCET_AMOUNT
    /\ totalClaimed[outcome.sender] = FAUCET_AMOUNT
    /\ remainingAllowance(St, outcome.sender) = MAX_CLAIM_AMOUNT - FAUCET_AMOUNT

-----------------------------------------------------------------------------
(* App: the claim handler of the page, its data fetch and its disconnect    *)

MsgReceived == "10 FCT received. Tx: "

MsgClaimFailedDefault == "Claim failed."

ServiceUnchanged ==
    UNCHANGED <<signer, currentAccount, pc, txHash, error, result, sends, calls, txStatus>>

\* what web3Service.canClaim gives fetchData: the contract's answer for the
\* account, or false when the read fails or the page has no account
fetchedCanClaim == {canClaim(St, WalletAccount, now), FALSE}

claimReturnsEarly_ignoresClaiming == ~eligibleToClaim

\* the first line of claim(): nothing is done unless the page believes the
\* account eligible and no claim is running
claimReturnsEarly == ~eligibleToClaim \/ claiming

\* fetchData, run by the polling timer, after connecting and on account changes
AppFetchData ==
    /\ \E value \in fetchedCanClaim : eligibleToClaim' = value
    /\ UNCHANGED <<readResult, connPc, claiming, uiMsg, appPc>>
    /\ ServiceUnchanged
    /\ ChainUnchanged

\* claim() is called and goes on to call web3Service.requestTokens()
AppClaim ==
    /\ ~claimReturnsEarly
    /\ claiming' = TRUE
    /\ uiMsg' = NoMsg
    /\ appPc' = "requestTokens"
    /\ StartRequestTokens
    /\ UNCHANGED <<readResult, connPc, eligibleToClaim>>

\* web3Service.requestTokens() settles: the success alert with the hash when
\* it resolved, after which fetchData is awaited; the error alert when it threw
AppClaimSettles ==
    /\ appPc = "requestTokens"
    /\ pc = "idle"
    /\ result.kind # "none"
    /\ IF result.kind = "resolved"
       THEN /\ uiMsg' = [type |-> "success", text |-> MsgReceived, hash |-> result.hash]
            /\ appPc' = "fetchData"
            /\ UNCHANGED claiming
       ELSE /\ uiMsg' = [type |-> "error",
                         text |-> IF result.text = "" /\ result.detail = {}
                                  THEN MsgClaimFailedDefault ELSE result.text,
                         hash |-> NoHash]
            /\ claiming' = FALSE
            /\ appPc' = "idle"
    /\ UNCHANGED <<readResult, connPc, eligibleToClaim>>
    /\ ServiceUnchanged
    /\ ChainUnchanged

\* the fetchData awaited by claim() settles and the finally block runs
AppClaimFetched ==
    /\ appPc = "fetchData"
    /\ \E value \in fetchedCanClaim : eligibleToClaim' = value
    /\ claiming' = FALSE
    /\ appPc' = "idle"
    /\ UNCHANGED <<readResult, connPc, uiMsg>>
    /\ ServiceUnchanged
    /\ ChainUnchanged

\* disconnect(): the service forgets the wallet and the page is reset
AppDisconnect ==
    /\ signer' = NULL
    /\ currentAccount' = NULL
    /\ eligibleToClaim' = FALSE
    /\ uiMsg' = NoMsg
    /\ UNCHANGED <<readResult, connPc, claiming, appPc>>
    /\ UNCHANGED <<pc, txHash, error, result, sends, calls, txStatus>>
    /\ ChainUnchanged

-----------------------------------------------------------------------------
(* SpecApp: the page's claim handler driving the service, with the owner    *)
(* pausing and the block time advancing                                     *)

AppTick == \E d \in TickSteps : Tick(d, MaxTime)

NextApp ==
    \/ AppFetchData
    \/ AppClaim
    \/ AppClaimSettles
    \/ AppClaimFetched
    \/ AppDisconnect
    \/ ClientEnsureSignerReady
    \/ ClientConnectAccounts
    \/ ClientConnectSigner
    \/ ClientConnectNetwork
    \/ ClientSend
    \/ ClientSendReturns
    \/ ClientWait1
    \/ ClientWait2
    \/ ChainMine
    \/ ChainSetPaused
    \/ ChainSetMinter
    \/ AppTick

SpecApp == Init /\ [][NextApp]_vars

\* C31: while the page shows the success alert of a claim, the transaction
\* whose hash it shows has been mined.
C31_SuccessOnlyAfterMined ==
    uiMsg.type = "success" => txStatus[uiMsg.hash] \in {"success", "reverted"}

\* the success alert is shown for a transaction that was mined and reverted
C31_SuccessShownForRevert ==
    uiMsg.type = "success" /\ txStatus[uiMsg.hash] = "reverted"

\* the success alert is shown for a transaction that was mined with success
C31_SuccessShownForSuccess ==
    uiMsg.type = "success" /\ txStatus[uiMsg.hash] = "success"

-----------------------------------------------------------------------------
(* Web3Service.connectWallet called on its own, and disconnectWallet        *)

-----------------------------------------------------------------------------
(* The read functions of Web3Service: each calls the contract through the   *)
(* read provider inside a try block and returns a fixed value from its      *)
(* catch block                                                              *)

getBalance(s, address, rpcFails) ==
    IF rpcFails THEN "0" ELSE ToString(balanceOf(s, address))

clientCanClaim_failsOpen(s, address, ts, rpcFails) ==
    IF rpcFails THEN TRUE ELSE canClaim(s, address, ts)

\* Web3Service.canClaim
clientCanClaim(s, address, ts, rpcFails) ==
    IF rpcFails THEN FALSE ELSE canClaim(s, address, ts)

getRemainingAllowance(s, address, rpcFails) ==
    IF rpcFails THEN "0" ELSE ToString(remainingAllowance(s, address))

getTimeUntilNextClaim(s, address, ts, rpcFails) ==
    IF rpcFails THEN 0 ELSE timeUntilNextClaim(s, address, ts)

\* a returned string, boolean or number
StrValue(v) == [str |-> v, bool |-> FALSE, num |-> 0]

BoolValue(v) == [str |-> "", bool |-> v, num |-> 0]

NumValue(v) == [str |-> "", bool |-> FALSE, num |-> v]

\* a read function returns value; it writes no field of the service
Read(fn, address, rpcFails, value) ==
    /\ readResult' = [fn |-> fn, address |-> address, failed |-> rpcFails,
                      threw |-> FALSE, value |-> value]
    /\ UNCHANGED clientVars
    /\ UNCHANGED <<connPc, eligibleToClaim, claiming, uiMsg, appPc>>
    /\ ChainUnchanged

ClientGetBalance ==
    \E rpcFails \in BOOLEAN :
       Read("getBalance", WalletAccount, rpcFails,
            StrValue(getBalance(St, WalletAccount, rpcFails)))

ClientCanClaim ==
    \E rpcFails \in BOOLEAN :
       Read("canClaim", WalletAccount, rpcFails,
            BoolValue(clientCanClaim(St, WalletAccount, now, rpcFails)))

ClientGetRemainingAllowance ==
    \E rpcFails \in BOOLEAN :
       Read("getRemainingAllowance", WalletAccount, rpcFails,
            StrValue(getRemainingAllowance(St, WalletAccount, rpcFails)))

ClientGetTimeUntilNextClaim ==
    \E rpcFails \in BOOLEAN :
       Read("getTimeUntilNextClaim", WalletAccount, rpcFails,
            NumValue(getTimeUntilNextClaim(St, WalletAccount, now, rpcFails)))

ConnectUnchanged ==
    /\ UNCHANGED <<pc, txHash, error, result, sends, calls, txStatus>>
    /\ UNCHANGED <<eligibleToClaim, claiming, uiMsg, appPc, readResult>>
    /\ ChainUnchanged

\* connectWallet() is called: without a wallet in the page it throws, with
\* one it asks the wallet for the accounts
ConnectWallet ==
    /\ connPc = "idle"
    /\ \E isWalletAvailable \in BOOLEAN :
          connPc' = IF isWalletAvailable THEN "accounts" ELSE "idle"
    /\ UNCHANGED <<signer, currentAccount>>
    /\ ConnectUnchanged

\* eth_requestAccounts answers: the first account is recorded, or the call
\* throws when there is none or the user declines
ConnectWalletAccounts ==
    /\ connPc = "accounts"
    /\ \/ \E accounts \in {<<>>, <<WalletAccount>>} :
             IF Len(accounts) = 0
             THEN connPc' = "idle" /\ UNCHANGED currentAccount
             ELSE currentAccount' = accounts[1] /\ connPc' = "signer"
       \/ connPc' = "idle" /\ UNCHANGED currentAccount
    /\ UNCHANGED signer
    /\ ConnectUnchanged

\* browserProvider.getSigner() answers: the signer is recorded, or the call throws
ConnectWalletSigner ==
    /\ connPc = "signer"
    /\ \/ signer' = WalletAccount /\ connPc' = "network"
       \/ connPc' = "idle" /\ UNCHANGED signer
    /\ UNCHANGED currentAccount
    /\ ConnectUnchanged

\* the network check, whose failures are swallowed; currentAccount is returned
ConnectWalletNetwork ==
    /\ connPc = "network"
    /\ connPc' = "idle"
    /\ UNCHANGED <<signer, currentAccount>>
    /\ ConnectUnchanged

\* disconnectWallet()
DisconnectWallet ==
    /\ signer' = NULL
    /\ currentAccount' = NULL
    /\ UNCHANGED connPc
    /\ ConnectUnchanged

-----------------------------------------------------------------------------
(* SpecConnect: connectWallet, disconnectWallet, requestTokens and the read *)
(* functions called on the service in any order                             *)

NextConnect ==
    \/ ConnectWallet
    \/ ConnectWalletAccounts
    \/ ConnectWalletSigner
    \/ ConnectWalletNetwork
    \/ DisconnectWallet
    \/ ClientRequestTokens
    \/ ClientEnsureSignerReady
    \/ ClientConnectAccounts
    \/ ClientConnectSigner
    \/ ClientConnectNetwork
    \/ ClientSend
    \/ ClientSendReturns
    \/ ClientWait1
    \/ ClientWait2
    \/ ChainMine
    \/ ChainSetMinter
    \/ ClientGetBalance
    \/ ClientCanClaim
    \/ ClientGetRemainingAllowance
    \/ ClientGetTimeUntilNextClaim

SpecConnect == Init /\ [][NextConnect]_vars

\* C35: the service holds a signer only while it holds an account.
C35_SignerOnlyWithAccount == signer # NULL => currentAccount # NULL

\* a connectWallet call that was interrupted by disconnectWallet while it
\* awaited the signer has recorded the signer of a service without account
C35_SignerWithoutAccount ==
    /\ signer # NULL
    /\ currentAccount = NULL
    /\ connPc = "network"

\* C36: once faucetWithSigner.requestTokens() has returned a transaction, the
\* client's requestTokens call does not throw: it leaves each of its two waits
\* either to the next one or by returning the hash of that transaction,
\* whatever the state of the transaction; a call that throws has no hash.
C36_ResolvesOnceHashObtained ==
    /\ [](/\ txHash # NoHash =>
                /\ result.kind \in {"none", "resolved"}
                /\ result.kind = "resolved" => result.hash = txHash
                /\ pc \in {"wait1", "wait2", "idle"}
                /\ txStatus[txHash] # "none"
          /\ result.kind = "thrown" => txHash = NoHash
          /\ result.kind = "resolved" => result.hash = txHash /\ txHash # NoHash
          /\ pc \in {"wait1", "wait2"} => txHash # NoHash)
    /\ [][/\ (pc = "wait1" /\ pc' # "wait1") =>
                (pc' = "wait2" /\ result' = NoResult) \/ (pc' = "idle" /\ result' = Resolved(txHash))
          /\ (pc = "wait2" /\ pc' # "wait2") =>
                (pc' = "idle" /\ result' = Resolved(txHash))
          /\ (result.kind # "thrown" /\ result'.kind = "thrown") =>
                (txHash = NoHash /\ txHash' = NoHash)]_vars

\* the call has returned the hash of a transaction that was mined and reverted
C36_Witness ==
    /\ result.kind = "resolved"
    /\ result.hash = txHash
    /\ txStatus[txHash] = "reverted"
    /\ pc = "idle"

\* the call has returned the hash of a transaction that is still pending
C36_WitnessPending ==
    /\ result = Resolved(txHash)
    /\ txStatus[txHash] = "pending"

\* the call has returned the hash of a transaction that was mined with success
C36_WitnessMined ==
    /\ result = Resolved(txHash)
    /\ txStatus[txHash] = "success"

\* a call has thrown, without a hash
C36_WitnessThrown ==
    /\ result.kind = "thrown"
    /\ txHash = NoHash
    /\ sends = 1

\* C37: claim() starts a requestTokens call of the service only when
\* eligibleToClaim is true and claiming is false, and otherwise does nothing;
\* claiming is true exactly while a claim() call is running, the service has
\* a call in flight only inside such a call, so a new call starts only when
\* none is in flight, and claiming is false again when claim() ends, whether
\* requestTokens resolved or threw.
C37_OneClaimAtATime ==
    /\ [](/\ claiming <=> appPc # "idle"
          /\ pc # "idle" => (claiming /\ appPc = "requestTokens")
          /\ appPc = "fetchData" => (uiMsg.type = "success" \/ uiMsg = NoMsg))
    /\ [][/\ calls' > calls =>
                /\ eligibleToClaim
                /\ ~claiming
                /\ pc = "idle"
                /\ calls' = calls + 1
                /\ claiming'
                /\ appPc' = "requestTokens"
          /\ claimReturnsEarly => (calls' = calls /\ (pc = "idle" => pc' = "idle"))
          /\ (appPc # "idle" /\ appPc' = "idle") => ~claiming'
          /\ (appPc = "requestTokens" /\ appPc' # appPc) =>
                IF result.kind = "resolved"
                THEN uiMsg'.type = "success" /\ appPc' = "fetchData"
                ELSE uiMsg'.type = "error" /\ appPc' = "idle"]_vars

\* a second claim has been started, after the first one ended
C37_Witness ==
    /\ calls = 2
    /\ claiming
    /\ appPc = "requestTokens"
    /\ pc # "idle"

\* a claim that failed has ended and claiming is false
C37_WitnessFailed ==
    /\ uiMsg.type = "error"
    /\ ~claiming
    /\ appPc = "idle"
    /\ calls >= 1

\* a claim that succeeded has ended and claiming is false
C37_WitnessSucceeded ==
    /\ uiMsg.type = "success"
    /\ ~claiming
    /\ appPc = "idle"

\* C38: a read function of the service never throws; when its call of the
\* contract fails, getBalance and getRemainingAllowance return "0", canClaim
\* returns false and getTimeUntilNextClaim returns 0, and otherwise each
\* returns what the contract answers; no read changes signer or
\* currentAccount.
C38_ReadsFailClosed ==
    /\ [](readResult.fn # "none" =>
             /\ ~readResult.threw
             /\ readResult.failed =>
                   IF readResult.fn = "canClaim" THEN readResult.value = BoolValue(FALSE)
                   ELSE IF readResult.fn = "getTimeUntilNextClaim" THEN readResult.value = NumValue(0)
                   ELSE readResult.value = StrValue("0"))
    /\ [][readResult' # readResult =>
             /\ UNCHANGED <<signer, currentAccount, pc, result, txStatus>>
             /\ ChainUnchanged
             /\ ~readResult'.failed =>
                   LET a == readResult'.address
                   IN  IF readResult'.fn = "canClaim"
                       THEN readResult'.value = BoolValue(canClaim(St, a, now))
                       ELSE IF readResult'.fn = "getTimeUntilNextClaim"
                       THEN readResult'.value = NumValue(timeUntilNextClaim(St, a, now))
                       ELSE IF readResult'.fn = "getBalance"
                       THEN readResult'.value = StrValue(ToString(balances[a]))
                       ELSE readResult'.value = StrValue(ToString(remainingAllowance(St, a)))]_vars

\* canClaim of a connected service has returned false because its call
\* failed, while the contract's answer is true
C38_Witness ==
    /\ readResult.fn = "canClaim"
    /\ readResult.failed
    /\ readResult.value.bool = FALSE
    /\ canClaim(St, readResult.address, now)
    /\ signer # NULL
    /\ currentAccount # NULL

\* getBalance has returned "0" for an account that holds tokens
C38_WitnessBalance ==
    /\ readResult.fn = "getBalance"
    /\ readResult.failed
    /\ readResult.value.str = "0"
    /\ balances[readResult.address] > 0

\* getRemainingAllowance has answered with the contract's value
C38_WitnessAllowance ==
    /\ readResult.fn = "getRemainingAllowance"
    /\ ~readResult.failed
    /\ readResult.value.str = "90"

\* getTimeUntilNextClaim has returned 0 during the account's cooldown
C38_WitnessTime ==
    /\ readResult.fn = "getTimeUntilNextClaim"
    /\ readResult.failed
    /\ readResult.value.num = 0
    /\ timeUntilNextClaim(St, readResult.address, now) > 0

====
